---- MODULE Spec2Model ----
(***************************************************************************)
(* Model of the reply-deleting Discord bot in src/src/bot/__init__.py:     *)
(* the rule table (_repo / DeletionRepo), the delete_reply handler         *)
(* (classification, then delete + send) and MyDiscordClient.on_message,    *)
(* which fans one inbound message out to the registered _message_handler_list with      *)
(* asyncio.gather.                                                         *)
(*                                                                         *)
(* Atomicity follows asyncio: code between two suspension points runs as   *)
(* one step.  The suspension points are the gather in on_message and the   *)
(* two calls to the external client (message.delete, channel.send).        *)
(***************************************************************************)
EXTENDS Integers, Sequences, FiniteSets, TLC

\* ---------------------------------------------------------------- bounds
MaxRules == 2
MaxHandlers == 2
MaxMsgs == 2

\* ------------------------------------------------------------ data model
\* Python's None; an optional value v is None or <<v>>.
None == <<>>

\* Server ids that rules may name, and the ids a message may come from
\* (3 is a server no rule names).  1 and 2 stand for the two ids of _repo.
ServerIds == {1, 2}
GuildIds == {1, 2, 3}
ChannelIds == {1, 2}

\* template_message: str | None
Templates == {None, <<"">>, <<"warn">>, <<"yaho">>}

Deletion == [server_id : ServerIds, template_message : Templates]

\* The module-level table: two rules, both with a non-empty template.
_repo ==
  << [server_id |-> 1, template_message |-> <<"warn">>],
     [server_id |-> 2, template_message |-> <<"yaho">>] >>

\* Every rule table of at most n rules, duplicates of a server id included.
RuleTables(n) == UNION { [1..k -> Deletion] : k \in 0..n }

\* The fields of discord.Message that the bot reads.  guild is None for a
\* direct message.
MessageTypes == {"reply", "default"}
Guilds == {None} \cup { <<g>> : g \in GuildIds }

\* The only handler the repository defines.
Handlers == {"delete_reply"}
HandlerLists(n) == UNION { [1..k -> Handlers] : k \in 0..n }

VARIABLES
  rules,        \* what DeletionRepo.get_all() yields
  _message_handler_list,     \* MyDiscordClient._message_handler_list
  events_left,  \* inbound-message events the gateway will still deliver
  msgs,         \* messages delivered so far; msgs[m].id = m
  om,           \* om[m]: state of the on_message call for message m
  outer,        \* outer[m]: state of the future returned by gather
  pc,           \* pc[m][h]: position of handler h's invocation for message m
  maybe,        \* maybe[m][h]: result of the classification chain
  trace         \* trace[m][h]: calls to the external client and their returns

vars == <<rules, _message_handler_list, events_left, msgs, om, outer, pc, maybe, trace>>

\* ------------------------------------------------------- pure functions

\* bool(x) of a returns.io.IO container: the class defines neither __bool__
\* nor __len__, so every instance is truthy whatever it holds.
IOTruthy(inner) == TRUE

\* filter(lambda x: x.server_id == message.guild.id, c): the rules of the
\* message's server, in table order.
FilterByGuild(c, message) ==
  SelectSeq(c, LAMBDA x : message.guild # None /\ x.server_id = message.guild[1])

\* The lambda reads message.guild.id once per rule it is applied to, and
\* next() applies it to the first rule at least: AttributeError when guild
\* is None and the table is not empty.
GuildAccessRaises(c, message) == message.guild = None /\ c # <<>>

\* next(filtered_deletions, None)
NextOrNone(filtered) == IF filtered = <<>> THEN None ELSE <<Head(filtered)>>

\* Variant of NextOrStop: takes the last matching rule instead of the first.
NextOrStop_Last(filtered) ==
  IF filtered = <<>> THEN [exc |-> "StopIteration", value |-> None]
  ELSE [exc |-> "", value |-> <<filtered[Len(filtered)]>>]

\* Variant of NextOrStop: next(l, default) with a rule that has no template,
\* so that an empty iterator no longer raises.
NextOrStop_Default(filtered) ==
  IF filtered = <<>>
  THEN [exc |-> "", value |-> <<[server_id |-> 0, template_message |-> None]>>]
  ELSE [exc |-> "", value |-> <<Head(filtered)>>]

\* next(l): the first element, or StopIteration when the iterator is empty
\* (it leaves the coroutine as RuntimeError).  exc is "" when nothing is
\* raised.
NextOrStop(filtered) ==
  IF filtered = <<>> THEN [exc |-> "StopIteration", value |-> None]
  ELSE [exc |-> "", value |-> <<Head(filtered)>>]

\* Variant of _validate_if_message_type_is_reply: the wildcard case returns
\* Some(message) as well.
_validate_if_message_type_is_reply_Always(message) ==
  IF message.type = "reply" THEN "Some" ELSE "Some"

\* message.type matched against MessageType.reply
_validate_if_message_type_is_reply(message) ==
  IF message.type = "reply" THEN "Some" ELSE "Nothing"

\* The inner func(message): `if result` tests the IO container, not the
\* rule it holds.
_validate_if_message_is_from_deletions(deletions, message) ==
  IF GuildAccessRaises(deletions, message) THEN "AttributeError"
  ELSE IF IOTruthy(NextOrNone(FilterByGuild(deletions, message)))
       THEN "Some" ELSE "Nothing"

\* m = _validate_if_message_type_is_reply(message).bind(
\*         _validate_if_message_is_from_deletions(deletions))
\* Maybe.bind calls the second check only on Some.
delete_reply(deletions, message) ==
  IF _validate_if_message_type_is_reply(message) = "Some"
  THEN _validate_if_message_is_from_deletions(deletions, message)
  ELSE "Nothing"

\* The `deletion` of _delete_message_and_send_alert: the first rule of the
\* message's server, or the exception the lookup raises.
deletion(deletions, message) ==
  IF GuildAccessRaises(deletions, message)
  THEN [exc |-> "AttributeError", value |-> None]
  ELSE NextOrStop(FilterByGuild(deletions, message))

\* The message a handler invocation works on: the `message` parameter its
\* closures capture.
MessageOf(m) == msgs[m]

\* Variant of SendCall: the channel is taken from the first message the
\* process saw (a channel kept in shared state) instead of from `message`.
SendCall_FirstChannel(message, x) ==
  [op |-> "send", target |-> msgs[1].channel, content |-> x.template_message]

\* message.delete() / message.channel.send(x.template_message)
DeleteCall(message) ==
  [op |-> "delete", target |-> message.id, content |-> None]

SendCall(message, x) ==
  [op |-> "send", target |-> message.channel, content |-> x.template_message]

\* What the external client answers to a call.
Return(call, ok) ==
  [op |-> call.op \o (IF ok THEN "_ok" ELSE "_failed"),
   target |-> call.target, content |-> None]

Finished(p) == p \in {"done", "raised"}

\* gather's _done_callback for child h, return_exceptions=False: the first
\* child exception settles the outer future at once; otherwise it is
\* settled when the last child finishes.
GatherDoneCallback(o, row, h) ==
  IF o # "pending" THEN o
  ELSE IF row[h] = "raised" THEN "exception"
  ELSE IF \A i \in DOMAIN row : Finished(row[i]) THEN "result"
  ELSE "pending"

\* ------------------------------------------------------------------ Init
\* The client as bootstrap() builds it (one delete_reply handler), over
\* every rule table.
InitBootstrap ==
  /\ rules \in RuleTables(MaxRules)
  /\ _message_handler_list = <<"delete_reply">>
  /\ events_left = 1

\* The client built with any handler list, over the module's table.
InitHandlerLists ==
  /\ rules = _repo
  /\ _message_handler_list \in HandlerLists(MaxHandlers)
  /\ events_left = 1

\* Several messages in flight at once.
InitManyMessages ==
  /\ rules = _repo
  /\ _message_handler_list = <<"delete_reply">>
  /\ events_left = MaxMsgs

Init ==
  /\ \/ InitBootstrap
     \/ InitHandlerLists
     \/ InitManyMessages
  /\ msgs = <<>>
  /\ om = <<>>
  /\ outer = <<>>
  /\ pc = <<>>
  /\ maybe = <<>>
  /\ trace = <<>>

\* --------------------------------------------------------------- actions
N == Len(_message_handler_list)

\* The first handler whose classification raises, 0 if none does.
FirstRaising(message) ==
  LET bad == { h \in 1..N : delete_reply(rules, message) \notin {"Some", "Nothing"} }
  IN IF bad = {} THEN 0 ELSE CHOOSE h \in bad : \A i \in bad : h <= i

\* on_message(message), up to its await.  The generator passed to gather is
\* consumed before gather runs, and calling handler(message)(deps) runs
\* delete_reply's func, hence the classification, synchronously.  An
\* exception there leaves on_message before gather is called: the awaitables
\* already built are never scheduled and the remaining _message_handler_list are never
\* called.  gather() of nothing returns a settled future.
on_message(type, guild, channel) ==
  /\ events_left > 0
  /\ LET m == Len(msgs) + 1
         message == [id |-> m, type |-> type, guild |-> guild, channel |-> channel]
         r == FirstRaising(message)
     IN /\ msgs' = Append(msgs, message)
        /\ maybe' = Append(maybe,
             [h \in 1..N |-> IF r = 0 \/ h < r THEN delete_reply(rules, message)
                             ELSE IF h = r THEN delete_reply(rules, message)
                             ELSE "unset"])
        /\ pc' = Append(pc,
             [h \in 1..N |-> IF r = 0 THEN "ready"
                             ELSE IF h < r THEN "created"
                             ELSE IF h = r THEN "raised"
                             ELSE "not_invoked"])
        /\ om' = Append(om, IF r # 0 THEN "raised"
                            ELSE IF N = 0 THEN "returned" ELSE "gathering")
        /\ outer' = Append(outer, IF r # 0 THEN "none"
                                  ELSE IF N = 0 THEN "result" ELSE "pending")
        /\ trace' = Append(trace, [h \in 1..N |-> <<>>])
  /\ events_left' = events_left - 1
  /\ UNCHANGED <<rules, _message_handler_list>>

\* The event loop's ready queue is first-in first-out: a task starts after
\* every task that was scheduled before it.
EarlierReady(m, h) ==
  \E m2 \in 1..Len(msgs) : \E h2 \in 1..N :
    /\ pc[m2][h2] = "ready"
    /\ (m2 < m \/ (m2 = m /\ h2 < h))

SetInvocation(m, h, p, tr) ==
  LET row == [pc[m] EXCEPT ![h] = p]
  IN /\ pc' = [pc EXCEPT ![m] = row]
     /\ trace' = [trace EXCEPT ![m][h] = tr]
     /\ outer' = [outer EXCEPT ![m] =
                    IF Finished(p) THEN GatherDoneCallback(outer[m], row, h)
                    ELSE outer[m]]

\* First step of handler h's task: bind_awaitable skips the function on
\* Failure (Nothing); on Success it runs _delete_message_and_send_alert's
\* func up to `await message.delete()`.
_delete_message_and_send_alert(m, h) ==
  /\ pc[m][h] = "ready"
  /\ ~EarlierReady(m, h)
  /\ LET message == MessageOf(m)
         x == deletion(rules, message)
     IN IF maybe[m][h] = "Nothing"
        THEN SetInvocation(m, h, "done", trace[m][h])
        ELSE IF x.exc # ""
        THEN SetInvocation(m, h, "raised", trace[m][h])
        ELSE SetInvocation(m, h, "await_delete",
                           Append(trace[m][h], DeleteCall(message)))
  /\ UNCHANGED <<rules, _message_handler_list, events_left, msgs, om, maybe>>

\* Variant of DeleteReturns: an exception of message.delete() is swallowed
\* and the send is issued all the same.
DeleteReturns_IgnoreFailure(m, h, ok) ==
  /\ pc[m][h] = "await_delete"
  /\ LET message == MessageOf(m)
         x == deletion(rules, message)
         tr == Append(trace[m][h], Return(DeleteCall(message), ok))
     IN SetInvocation(m, h, "await_send", Append(tr, SendCall(message, x.value[1])))
  /\ UNCHANGED <<rules, _message_handler_list, events_left, msgs, om, maybe>>

\* message.delete() returns or raises.  On return the send is issued at
\* once, whatever the template is; on an exception the coroutine ends.
DeleteReturns(m, h, ok) ==
  /\ pc[m][h] = "await_delete"
  /\ LET message == MessageOf(m)
         x == deletion(rules, message)
         tr == Append(trace[m][h], Return(DeleteCall(message), ok))
     IN IF ok
        THEN SetInvocation(m, h, "await_send", Append(tr, SendCall(message, x.value[1])))
        ELSE SetInvocation(m, h, "raised", tr)
  /\ UNCHANGED <<rules, _message_handler_list, events_left, msgs, om, maybe>>

\* message.channel.send(...) returns or raises.
SendReturns(m, h, ok) ==
  /\ pc[m][h] = "await_send"
  /\ LET message == MessageOf(m)
         x == deletion(rules, message)
         tr == Append(trace[m][h], Return(SendCall(message, x.value[1]), ok))
     IN SetInvocation(m, h, IF ok THEN "done" ELSE "raised", tr)
  /\ UNCHANGED <<rules, _message_handler_list, events_left, msgs, om, maybe>>

\* on_message resumes from `await asyncio.gather(...)` once the outer future
\* is settled.  The tasks gather created were queued before the wake-up, so
\* each has had its first step by then.
on_message_resume(m) ==
  /\ om[m] = "gathering"
  /\ outer[m] # "pending"
  /\ \A h \in 1..N : pc[m][h] # "ready"
  /\ om' = [om EXCEPT ![m] = IF outer[m] = "result" THEN "returned" ELSE "raised"]
  /\ UNCHANGED <<rules, _message_handler_list, events_left, msgs, outer, pc, maybe, trace>>

Next ==
  \/ \E type \in MessageTypes, guild \in Guilds, channel \in ChannelIds :
       on_message(type, guild, channel)
  \/ \E m \in 1..Len(msgs) : \E h \in 1..N : _delete_message_and_send_alert(m, h)
  \/ \E m \in 1..Len(msgs) : \E h \in 1..N : \E ok \in BOOLEAN : DeleteReturns(m, h, ok)
  \/ \E m \in 1..Len(msgs) : \E h \in 1..N : \E ok \in BOOLEAN : SendReturns(m, h, ok)
  \/ \E m \in 1..Len(msgs) : on_message_resume(m)

Spec == Init /\ [][Next]_vars

\* ------------------------------------------------ vocabulary of the claims
Invocations == { <<m, h>> : m \in 1..Len(msgs), h \in 1..N }

\* The events of one kind in an invocation's trace.
Ops(tr, op) == SelectSeq(tr, LAMBDA e : e.op = op)

IsReply(message) == message.type = "reply"

\* The message comes from a server, and some rule names that server.
Configured(message) ==
  /\ message.guild # None
  /\ \E i \in DOMAIN rules : rules[i].server_id = message.guild[1]

\* The message comes from a server that no rule names.
Unconfigured(message) ==
  /\ message.guild # None
  /\ \A i \in DOMAIN rules : rules[i].server_id # message.guild[1]

\* The first rule, in table order, of a configured message's server.
FirstRule(message) ==
  LET I == { i \in DOMAIN rules : rules[i].server_id = message.guild[1] }
  IN rules[CHOOSE i \in I : \A j \in I : i <= j]

NonEmpty(t) == t # None /\ t # <<"">>

\* ---------------------------------------------------------------- claims

\* C1: for a reply from a configured server, handling issues exactly one
\* delete call, and exactly one send call iff the rule's template is
\* non-empty (none when it is None or ""), the payload being that template.
\* Read for the invocations whose delete call returned normally.
C1_OneDeleteAndSendIffTemplate ==
  \A iv \in Invocations :
    LET message == msgs[iv[1]]
        tr == trace[iv[1]][iv[2]]
    IN (IsReply(message) /\ Configured(message)) =>
         /\ Len(Ops(tr, "delete")) <= 1
         /\ pc[iv[1]][iv[2]] # "ready" => Len(Ops(tr, "delete")) = 1
         /\ Len(Ops(tr, "send")) <= 1
         /\ \A i \in DOMAIN tr : tr[i].op = "send" =>
              /\ NonEmpty(FirstRule(message).template_message)
              /\ tr[i].content = FirstRule(message).template_message
         /\ Ops(tr, "delete_ok") # <<>> =>
              (Len(Ops(tr, "send")) = 1 <=> NonEmpty(FirstRule(message).template_message))

\* C2: for a reply from a server that is not in the rule table, no delete
\* call and no send call is ever issued.
C2_NoCallForUnconfiguredReply ==
  \A iv \in Invocations :
    (IsReply(msgs[iv[1]]) /\ Unconfigured(msgs[iv[1]])) => trace[iv[1]][iv[2]] = <<>>

C2_Witness ==
  \E iv \in Invocations :
    /\ IsReply(msgs[iv[1]]) /\ Unconfigured(msgs[iv[1]])
    /\ rules # <<>>
    /\ Finished(pc[iv[1]][iv[2]])

\* C3: for a message that is not a reply, no delete call and no send call
\* is ever issued, whether its server is configured or not.
C3_NoCallForNonReply ==
  \A iv \in Invocations :
    ~IsReply(msgs[iv[1]]) => trace[iv[1]][iv[2]] = <<>>

C3_Witness ==
  \E iv \in Invocations :
    /\ ~IsReply(msgs[iv[1]]) /\ Configured(msgs[iv[1]])
    /\ pc[iv[1]][iv[2]] = "done"

\* C4: the classification yields a qualifying message only for a reply whose
\* server id is the server_id of some rule; for every other message, a reply
\* from an unconfigured server included, it yields "no match".  Read on the
\* module's own table, for the messages that come from a server.
C4_ClassificationMatchesRule ==
  \A iv \in Invocations :
    LET message == msgs[iv[1]]
    IN (rules = _repo /\ message.guild # None) =>
         /\ maybe[iv[1]][iv[2]] = "Some" => (IsReply(message) /\ Configured(message))
         /\ ~(IsReply(message) /\ Configured(message)) => maybe[iv[1]][iv[2]] = "Nothing"

\* C5: for a reply whose server has no rule, the handler invocation ends in
\* the normal "no match" outcome: nothing is raised, the invocation is not a
\* failure.  Read on the module's own table.
C5_UnconfiguredReplyIsNoMatch ==
  \A iv \in Invocations :
    (rules = _repo /\ IsReply(msgs[iv[1]]) /\ Unconfigured(msgs[iv[1]])) =>
       pc[iv[1]][iv[2]] # "raised"

\* C6: on_message does not complete before every handler invocation for the
\* message has finished, also when one of the handlers fails.  Read for the
\* invocations that were started: none is still running once on_message is
\* over.
C6_OnMessageWaitsForAll ==
  \A iv \in Invocations :
    om[iv[1]] \in {"returned", "raised"} =>
      pc[iv[1]][iv[2]] \notin {"ready", "await_delete", "await_send"}

\* C7: every registered handler is invoked with the message and runs, even
\* when another handler of the list fails, be it during classification or
\* during delete/send: once on_message has reached its await or ended, no
\* handler is left uncalled and no awaitable is left unscheduled.
C7_EveryHandlerInvoked ==
  \A iv \in Invocations :
    pc[iv[1]][iv[2]] \notin {"not_invoked", "created"}

\* C8: with the delete and send steps of several qualifying messages
\* interleaved, every delete call of an invocation targets its own message
\* and every send call goes to that message's channel with the template of
\* that message's server; an invocation that got past the lookup has issued
\* its own delete call.
C8_NoCrossTalk ==
  \A iv \in Invocations :
    LET message == msgs[iv[1]]
        tr == trace[iv[1]][iv[2]]
    IN /\ \A i \in DOMAIN tr :
            /\ tr[i].op \in {"delete", "delete_ok", "delete_failed"} =>
                 tr[i].target = message.id
            /\ tr[i].op \in {"send", "send_ok", "send_failed"} =>
                 tr[i].target = message.channel
            /\ tr[i].op = "send" =>
                 /\ Configured(message)
                 /\ tr[i].content = FirstRule(message).template_message
       /\ pc[iv[1]][iv[2]] \in {"await_delete", "await_send"} =>
            Len(Ops(tr, "delete")) = 1

\* Two messages of different servers and channels, both with their send
\* call in flight at the same time.
C8_Witness ==
  \E m1, m2 \in 1..Len(msgs) :
    /\ m1 # m2
    /\ msgs[m1].guild # msgs[m2].guild
    /\ msgs[m1].channel # msgs[m2].channel
    /\ N >= 1
    /\ pc[m1][1] = "await_send"
    /\ pc[m2][1] = "await_send"

\* C9: for any rule table, one with several rules of the same server_id
\* included, exactly one rule is used for a qualifying message, the first in
\* table order whose server_id is the message's server id: every send
\* carries that rule's template and there is never a second send.
C9_FirstMatchingRuleOnly ==
  \A iv \in Invocations :
    LET message == msgs[iv[1]]
        tr == trace[iv[1]][iv[2]]
    IN /\ Len(Ops(tr, "send")) <= 1
       /\ \A i \in DOMAIN tr : tr[i].op = "send" =>
            /\ Configured(message)
            /\ tr[i].content = FirstRule(message).template_message

\* A table with two rules of the message's server that differ in their
\* template, and the send for that message answered.
C9_Witness ==
  \E iv \in Invocations :
    /\ Len(rules) >= 2
    /\ Configured(msgs[iv[1]])
    /\ rules[1].server_id = msgs[iv[1]].guild[1]
    /\ rules[2].server_id = msgs[iv[1]].guild[1]
    /\ rules[1].template_message # rules[2].template_message
    /\ Ops(trace[iv[1]][iv[2]], "send_ok") # <<>>

\* C10: the send call is issued only after the delete call of the same
\* invocation has returned normally; when the delete call fails the
\* invocation fails, it issues no send call, and neither call is repeated.
C10_SendOnlyAfterDelete ==
  \A iv \in Invocations :
    LET tr == trace[iv[1]][iv[2]]
    IN /\ \A i \in DOMAIN tr : tr[i].op = "send" =>
            \E j \in 1..(i - 1) : tr[j].op = "delete_ok"
       /\ Ops(tr, "delete_failed") # <<>> =>
            /\ pc[iv[1]][iv[2]] = "raised"
            /\ Ops(tr, "send") = <<>>
       /\ Len(Ops(tr, "delete")) <= 1
       /\ Len(Ops(tr, "send")) <= 1

C10_Witness ==
  \E iv \in Invocations :
    /\ Ops(trace[iv[1]][iv[2]], "delete_failed") # <<>>
    /\ pc[iv[1]][iv[2]] = "raised"
====
